---- MODULE Spec2Model ----
(***************************************************************************)
(* A model of src/app.py: the /generate request handler, the coercion of   *)
(* model output into a bounded outline (coerce_outline), the layout choice *)
(* (choose_layout) and the deck assembly (add_slides_from_outline).        *)
(*                                                                         *)
(* Python strings are modelled as sequences of one-character strings, so   *)
(* that slicing, searching, lower-casing and parsing are computed and not  *)
(* assumed.                                                                *)
(***************************************************************************)
EXTENDS Integers, Sequences, FiniteSets, TLC

(***************************************************************************)
(* Python string and list primitives used by the source.                   *)
(***************************************************************************)

\* s[:n]
Take(s, n) == SubSeq(s, 1, IF Len(s) < n THEN Len(s) ELSE n)

\* [c] * n
Rep(c, n) == [i \in 1..n |-> c]

Digits == {"0", "1", "2", "3", "4", "5", "6", "7", "8", "9"}

Whitespace == {" ", "\n", "\t"}

DigitOf == <<"0", "1", "2", "3", "4", "5", "6", "7", "8", "9">>

\* str(n) for a non-negative int
RECURSIVE Dec(_)
Dec(n) == IF n < 10 THEN <<DigitOf[n + 1]>> ELSE Dec(n \div 10) \o <<DigitOf[(n % 10) + 1]>>

\* sub in s
Contains(s, sub) == \E i \in 1..(Len(s) - Len(sub) + 1) : SubSeq(s, i, i + Len(sub) - 1) = sub

UpperCase == <<"A", "B", "C", "D", "E", "F", "G", "H", "I", "J", "K", "L", "M", "N", "O", "P", "Q", "R", "S", "T", "U", "V", "W", "X", "Y", "Z">>

LowerCase == <<"a", "b", "c", "d", "e", "f", "g", "h", "i", "j", "k", "l", "m", "n", "o", "p", "q", "r", "s", "t", "u", "v", "w", "x", "y", "z">>

LowerChar(c) == IF \E i \in 1..26 : UpperCase[i] = c THEN LowerCase[CHOOSE i \in 1..26 : UpperCase[i] = c] ELSE c

\* s.lower()
Lower(s) == [i \in 1..Len(s) |-> LowerChar(s[i])]

\* s.strip()
Strip(s) ==
  IF \A i \in 1..Len(s) : s[i] \in Whitespace THEN <<>>
  ELSE LET a == CHOOSE i \in 1..Len(s) : s[i] \notin Whitespace /\ \A j \in 1..(i - 1) : s[j] \in Whitespace
           b == CHOOSE i \in 1..Len(s) : s[i] \notin Whitespace /\ \A j \in (i + 1)..Len(s) : s[j] \in Whitespace
       IN SubSeq(s, a, b)

(***************************************************************************)
(* json.loads, on the JSON subset the inputs below use: objects, arrays,   *)
(* strings without escapes, non-negative integers, null, true, false, and  *)
(* whitespace between tokens.  A value is a record [k, s, items]: k its    *)
(* kind, s the characters of a string or number, items the elements of an  *)
(* array or the [key, val] members of an object.                           *)
(***************************************************************************)

JStr(s) == [k |-> "str", s |-> s, items |-> <<>>]

JNum(s) == [k |-> "num", s |-> s, items |-> <<>>]

JNull == [k |-> "null", s |-> <<>>, items |-> <<>>]

JBool(b) == [k |-> IF b THEN "true" ELSE "false", s |-> <<>>, items |-> <<>>]

JList(items) == [k |-> "list", s |-> <<>>, items |-> items]

JObj(members) == [k |-> "obj", s |-> <<>>, items |-> members]

ParseFail == [ok |-> FALSE, val |-> JNull, next |-> 0]

ParseOk(v, n) == [ok |-> TRUE, val |-> v, next |-> n]

RECURSIVE SkipWs(_, _)
SkipWs(t, i) == IF i <= Len(t) /\ t[i] \in Whitespace THEN SkipWs(t, i + 1) ELSE i

Lit(t, i, w) == i + Len(w) - 1 <= Len(t) /\ SubSeq(t, i, i + Len(w) - 1) = w

\* t[i] is the opening quote
ParseString(t, i) ==
  IF \A j \in (i + 1)..Len(t) : t[j] # "\"" THEN ParseFail
  ELSE LET j == CHOOSE j \in (i + 1)..Len(t) : t[j] = "\"" /\ \A m \in (i + 1)..(j - 1) : t[m] # "\""
       IN ParseOk(JStr(SubSeq(t, i + 1, j - 1)), j + 1)

\* t[i] is a digit
ParseNumber(t, i) ==
  LET e == IF \A j \in i..Len(t) : t[j] \in Digits THEN Len(t) + 1
           ELSE CHOOSE j \in i..Len(t) : t[j] \notin Digits /\ \A m \in i..(j - 1) : t[m] \in Digits
  IN IF t[i] = "0" /\ e > i + 1 THEN ParseOk(JNum(<<"0">>), i + 1)
     ELSE ParseOk(JNum(SubSeq(t, i, e - 1)), e)

RECURSIVE ParseValue(_, _), ParseElems(_, _, _), ParseMembers(_, _, _)
ParseValue(t, i0) ==
  LET i == SkipWs(t, i0)
  IN IF i > Len(t) THEN ParseFail
     ELSE CASE t[i] = "\"" -> ParseString(t, i)
            [] t[i] \in Digits -> ParseNumber(t, i)
            [] t[i] = "[" ->
                 LET j == SkipWs(t, i + 1)
                 IN IF j <= Len(t) /\ t[j] = "]" THEN ParseOk(JList(<<>>), j + 1)
                    ELSE ParseElems(t, j, <<>>)
            [] t[i] = "{" ->
                 LET j == SkipWs(t, i + 1)
                 IN IF j <= Len(t) /\ t[j] = "}" THEN ParseOk(JObj(<<>>), j + 1)
                    ELSE ParseMembers(t, j, <<>>)
            [] Lit(t, i, <<"n", "u", "l", "l">>) -> ParseOk(JNull, i + 4)
            [] Lit(t, i, <<"t", "r", "u", "e">>) -> ParseOk(JBool(TRUE), i + 4)
            [] Lit(t, i, <<"f", "a", "l", "s", "e">>) -> ParseOk(JBool(FALSE), i + 5)
            [] OTHER -> ParseFail

ParseElems(t, i, acc) ==
  LET r == ParseValue(t, i)
      j == SkipWs(t, r.next)
  IN IF ~r.ok \/ j > Len(t) THEN ParseFail
     ELSE IF t[j] = "," THEN ParseElems(t, j + 1, Append(acc, r.val))
     ELSE IF t[j] = "]" THEN ParseOk(JList(Append(acc, r.val)), j + 1)
     ELSE ParseFail

ParseMembers(t, i0, acc) ==
  LET i == SkipWs(t, i0)
      key == IF i <= Len(t) /\ t[i] = "\"" THEN ParseString(t, i) ELSE ParseFail
      c == SkipWs(t, key.next)
      r == IF key.ok /\ c <= Len(t) /\ t[c] = ":" THEN ParseValue(t, c + 1) ELSE ParseFail
      j == SkipWs(t, r.next)
      m == Append(acc, [key |-> key.val.s, val |-> r.val])
  IN IF ~r.ok \/ j > Len(t) THEN ParseFail
     ELSE IF t[j] = "," THEN ParseMembers(t, j + 1, m)
     ELSE IF t[j] = "}" THEN ParseOk(JObj(m), j + 1)
     ELSE ParseFail

\* json.loads(t): [raised, val]; raised for an empty or malformed document and
\* for data after the document
json_loads(t) ==
  LET r == ParseValue(t, 1)
  IN IF r.ok /\ SkipWs(t, r.next) > Len(t) THEN [raised |-> FALSE, val |-> r.val]
     ELSE [raised |-> TRUE, val |-> JNull]

(***************************************************************************)
(* Python's view of a parsed value: dict lookup, truthiness, iteration and *)
(* str().                                                                  *)
(***************************************************************************)

HasKey(members, key) == \E i \in 1..Len(members) : members[i].key = key

\* the value of the last member with that key (json.loads keeps the last)
Lookup(members, key) ==
  members[CHOOSE i \in 1..Len(members) : members[i].key = key /\ \A j \in (i + 1)..Len(members) : members[j].key # key].val

\* d.get(key, default) of a dict d
DictGet(d, key, default) == IF HasKey(d.items, key) THEN Lookup(d.items, key) ELSE default

\* the keys of a dict, each once, in insertion order
DictKeys(members) ==
  LET first == SelectSeq([i \in 1..Len(members) |-> i], LAMBDA i : \A j \in 1..(i - 1) : members[j].key # members[i].key)
  IN [n \in 1..Len(first) |-> members[first[n]].key]

\* bool(v)
Truthy(v) ==
  CASE v.k = "str" -> v.s # <<>>
    [] v.k = "num" -> v.s # <<"0">>
    [] v.k = "true" -> TRUE
    [] v.k \in {"list", "obj"} -> v.items # <<>>
    [] OTHER -> FALSE

\* for x in v: [raised, items]; an int, a bool or None is not iterable
Iterate(v) ==
  CASE v.k = "list" -> [raised |-> FALSE, items |-> v.items]
    [] v.k = "str" -> [raised |-> FALSE, items |-> [i \in 1..Len(v.s) |-> JStr(<<v.s[i]>>)]]
    [] v.k = "obj" -> [raised |-> FALSE, items |-> LET ks == DictKeys(v.items) IN [i \in 1..Len(ks) |-> JStr(ks[i])]]
    [] OTHER -> [raised |-> TRUE, items |-> <<>>]

RECURSIVE JoinSeq(_, _)
JoinSeq(parts, sep) ==
  IF parts = <<>> THEN <<>>
  ELSE IF Len(parts) = 1 THEN parts[1]
  ELSE parts[1] \o sep \o JoinSeq(Tail(parts), sep)

RECURSIVE PyStr(_), PyRepr(_)
\* str(v)
PyStr(v) ==
  CASE v.k \in {"str", "num"} -> v.s
    [] v.k = "null" -> <<"N", "o", "n", "e">>
    [] v.k = "true" -> <<"T", "r", "u", "e">>
    [] v.k = "false" -> <<"F", "a", "l", "s", "e">>
    [] v.k = "list" -> <<"[">> \o JoinSeq([i \in 1..Len(v.items) |-> PyRepr(v.items[i])], <<",", " ">>) \o <<"]">>
    [] v.k = "obj" ->
         LET ks == DictKeys(v.items)
         IN <<"{">> \o JoinSeq([i \in 1..Len(ks) |-> <<"'">> \o ks[i] \o <<"'", ":", " ">> \o PyRepr(Lookup(v.items, ks[i]))], <<",", " ">>) \o <<"}">>

\* repr(v)
PyRepr(v) == IF v.k = "str" THEN <<"'">> \o v.s \o <<"'">> ELSE PyStr(v)

(***************************************************************************)
(* coerce_outline (src/app.py 214-233).  A slide is a record               *)
(* [title, bullets, notes]; an outline is a record whose slides field is   *)
(* the value of the dict's "slides" key.                                   *)
(***************************************************************************)

MAX_SLIDES == 25

TITLE_MAX == 255

BULLET_MAX == 255

BULLETS_MAX == 10

NOTES_MAX == 2000

FALLBACK_BULLET_LEN == 120

FALLBACK_NOTES_LEN == 500

NoSlide == [title |-> <<>>, bullets |-> <<>>, notes |-> <<>>]

\* text.index(c), 1-based; 0 stands for ValueError
Index(text, c) ==
  IF \A i \in 1..Len(text) : text[i] # c THEN 0
  ELSE CHOOSE i \in 1..Len(text) : text[i] = c /\ \A j \in 1..(i - 1) : text[j] # c

\* text.rindex(c), 1-based; 0 stands for ValueError
RIndex(text, c) ==
  IF \A i \in 1..Len(text) : text[i] # c THEN 0
  ELSE CHOOSE i \in 1..Len(text) : text[i] = c /\ \A j \in (i + 1)..Len(text) : text[j] # c

\* str(s.get("title", ""))[:255]
NormTitle(s) == Take(PyStr(DictGet(s, <<"t", "i", "t", "l", "e">>, JStr(<<>>))), TITLE_MAX)

\* line 224 without its [:10]
CapBullets_NoCap(bs) == bs

\* the cap of line 224: [...][:10]
CapBullets(bs) == Take(bs, BULLETS_MAX)

\* (s.get("bullets") or [])
BulletsSource(b) == IF Truthy(b) THEN Iterate(b) ELSE [raised |-> FALSE, items |-> <<>>]

\* [str(b)[:255] for b in it][:10]
BulletStrings(it) ==
  [raised |-> it.raised,
   val |-> CapBullets([i \in 1..Len(it.items) |-> Take(PyStr(it.items[i]), BULLET_MAX)])]

\* [str(b)[:255] for b in (s.get("bullets") or [])][:10]
NormBullets(s) == BulletStrings(BulletsSource(DictGet(s, <<"b", "u", "l", "l", "e", "t", "s">>, JNull)))

\* line 225 without its "if with_notes else"
NormNotes_IgnoresFlag(s, wn) == Take(PyStr(DictGet(s, <<"n", "o", "t", "e", "s">>, JStr(<<>>))), NOTES_MAX)

\* str(s.get("notes", ""))[:2000] if with_notes else ""
NormNotes(s, wn) == IF wn THEN Take(PyStr(DictGet(s, <<"n", "o", "t", "e", "s">>, JStr(<<>>))), NOTES_MAX) ELSE <<>>

\* the dict of lines 222-226, given its bullets
SlideDict(s, bs, wn) ==
  IF bs.raised THEN [raised |-> TRUE, slide |-> NoSlide]
  ELSE [raised |-> FALSE, slide |-> [title |-> NormTitle(s), bullets |-> bs.val, notes |-> NormNotes(s, wn)]]

\* the dict appended at lines 222-226; s.get raises unless s is a dict
NormSlide(s, wn) ==
  IF s.k # "obj" THEN [raised |-> TRUE, slide |-> NoSlide]
  ELSE SlideDict(s, NormBullets(s), wn)

\* lines 216-218: json.loads(text[start:end]), start and end 1-based, 0 for ValueError
LoadSlice(text, start, end) ==
  IF start = 0 \/ end = 0 THEN [raised |-> TRUE, val |-> JNull]
  ELSE json_loads(SubSeq(text, start, end))

\* line 219 and the iteration of line 221: the entries of obj.get("slides", [])
SlidesOf(doc) ==
  IF doc.raised \/ doc.val.k # "obj" THEN [raised |-> TRUE, items |-> <<>>]
  ELSE Iterate(DictGet(doc.val, <<"s", "l", "i", "d", "e", "s">>, JList(<<>>)))

\* lines 220-226 over the entries
NormEntries(each) ==
  IF \E i \in 1..Len(each) : each[i].raised THEN [raised |-> TRUE, norm |-> <<>>]
  ELSE [raised |-> FALSE, norm |-> [i \in 1..Len(each) |-> each[i].slide]]

NormList(slides, wn) ==
  IF slides.raised THEN [raised |-> TRUE, norm |-> <<>>]
  ELSE NormEntries([i \in 1..Len(slides.items) |-> NormSlide(slides.items[i], wn)])

\* lines 216-226: the list norm, or raised when any statement of them raises
TryNorm(text, wn) == NormList(SlidesOf(LoadSlice(text, Index(text, "{"), RIndex(text, "}"))), wn)

\* line 228
EmptyFallback == <<[title |-> <<"O", "v", "e", "r", "v", "i", "e", "w">>, bullets |-> <<<<"S", "u", "m", "m", "a", "r", "y">>>>, notes |-> <<>>]>>

\* lines 229-230 left out
CapSlides_NoCap(norm) == norm

\* lines 229-230
CapSlides(norm) == IF Len(norm) > MAX_SLIDES THEN Take(norm, MAX_SLIDES) ELSE norm

\* line 233 with text in place of text[:120]
ExceptFallback_WholeText(text, wn) ==
  <<[title |-> <<"O", "v", "e", "r", "v", "i", "e", "w">>,
     bullets |-> <<text>>,
     notes |-> IF ~wn THEN <<>> ELSE Take(text, FALLBACK_NOTES_LEN)]>>

\* line 233
ExceptFallback(text, wn) ==
  <<[title |-> <<"O", "v", "e", "r", "v", "i", "e", "w">>,
     bullets |-> <<Take(text, FALLBACK_BULLET_LEN)>>,
     notes |-> IF ~wn THEN <<>> ELSE Take(text, FALLBACK_NOTES_LEN)]>>

\* lines 227-233, given the outcome t of lines 216-226
Finish(t, text, wn) ==
  IF t.raised THEN [slides |-> ExceptFallback(text, wn)]
  ELSE [slides |-> CapSlides(IF Len(t.norm) < 1 THEN EmptyFallback ELSE t.norm)]

coerce_outline(text, wn) == Finish(TryNorm(text, wn), text, wn)

(***************************************************************************)
(* The texts coerce_outline is applied to.  An input is described by a     *)
(* record [kind, n, wrap] and Render gives its characters.                 *)
(***************************************************************************)

MaxSlidesIn == 27

MaxBulletsIn == 12

Over == 2

\* the i-th entry of a numbered deck: its title is the JSON number i
Entry(i) == <<"{", "\"", "t", "i", "t", "l", "e", "\"", ":">> \o Dec(i) \o <<",", "\"", "b", "u", "l", "l", "e", "t", "s", "\"", ":", "[", "\"", "p", "\"", ",", "\"", "q", "\"", "]", ",", "\"", "n", "o", "t", "e", "s", "\"", ":", "\"", "s", "a", "y", "\"", "}">>

DeckDoc(n) == <<"{", "\"", "s", "l", "i", "d", "e", "s", "\"", ":", "[">> \o JoinSeq([i \in 1..n |-> Entry(i)], <<",">>) \o <<"]", "}">>

OneSlideDoc(title, bullets, notes) ==
  <<"{", "\"", "s", "l", "i", "d", "e", "s", "\"", ":", "[", "{", "\"", "t", "i", "t", "l", "e", "\"", ":", "\"">> \o title \o <<"\"", ",", "\"", "b", "u", "l", "l", "e", "t", "s", "\"", ":">> \o bullets \o <<",", "\"", "n", "o", "t", "e", "s", "\"", ":", "\"">> \o notes \o <<"\"", "}", "]", "}">>

BulletList(n, len) == <<"[">> \o JoinSeq([i \in 1..n |-> <<"\"">> \o Rep("b", len) \o <<"\"">>], <<",">>) \o <<"]">>

\* documents of a degenerate or unusual shape, with what Python makes of them:
\* "raises" (a statement of the try block raises), "zero" (the loop runs over
\* no entry) or "ok" (at least one entry is normalised)
LiteralDocs ==
  << [text |-> <<"{", "}">>, cls |-> "zero"],
     [text |-> <<"{", "\"", "s", "l", "i", "d", "e", "s", "\"", ":", "[", "]", "}">>, cls |-> "zero"],
     [text |-> <<"{", "\"", "s", "l", "i", "d", "e", "s", "\"", ":", "n", "u", "l", "l", "}">>, cls |-> "raises"],
     [text |-> <<"{", "\"", "s", "l", "i", "d", "e", "s", "\"", ":", "5", "}">>, cls |-> "raises"],
     [text |-> <<"{", "\"", "s", "l", "i", "d", "e", "s", "\"", ":", "\"", "a", "b", "\"", "}">>, cls |-> "raises"],
     [text |-> <<"{", "\"", "s", "l", "i", "d", "e", "s", "\"", ":", "\"", "\"", "}">>, cls |-> "zero"],
     [text |-> <<"{", "\"", "s", "l", "i", "d", "e", "s", "\"", ":", "{", "}", "}">>, cls |-> "zero"],
     [text |-> <<"{", "\"", "s", "l", "i", "d", "e", "s", "\"", ":", "{", "\"", "a", "\"", ":", "1", "}", "}">>, cls |-> "raises"],
     [text |-> <<"{", "\"", "s", "l", "i", "d", "e", "s", "\"", ":", "[", "5", "]", "}">>, cls |-> "raises"],
     [text |-> <<"{", "\"", "s", "l", "i", "d", "e", "s", "\"", ":", "[", "[", "]", "]", "}">>, cls |-> "raises"],
     [text |-> <<"{", "\"", "s", "l", "i", "d", "e", "s", "\"", ":", "[", "{", "}", ",", "\"", "x", "\"", "]", "}">>, cls |-> "raises"],
     [text |-> <<"[", "1", ",", "2", "]">>, cls |-> "raises"],
     [text |-> <<"\"", "j", "u", "s", "t", " ", "a", " ", "s", "t", "r", "i", "n", "g", "\"">>, cls |-> "raises"],
     [text |-> <<"[", "{", "\"", "t", "i", "t", "l", "e", "\"", ":", "\"", "A", "\"", ",", "\"", "b", "u", "l", "l", "e", "t", "s", "\"", ":", "[", "\"", "x", "\"", "]", "}", "]">>, cls |-> "zero"],
     [text |-> <<"{", "\"", "o", "u", "t", "l", "i", "n", "e", "\"", ":", "{", "\"", "s", "l", "i", "d", "e", "s", "\"", ":", "[", "{", "\"", "t", "i", "t", "l", "e", "\"", ":", "\"", "A", "\"", "}", "]", "}", "}">>, cls |-> "zero"],
     [text |-> <<"{", "\"", "s", "l", "i", "d", "e", "s", "\"", ":", "[", "{", "\"", "t", "i", "t", "l", "e", "\"", ":", "\"", "A", "\"", "}", "]", ",", "\"", "s", "l", "i", "d", "e", "s", "\"", ":", "[", "]", "}">>, cls |-> "zero"],
     [text |-> <<"{", "\"", "s", "l", "i", "d", "e", "s", "\"", ":", "[", "{", "\"", "t", "i", "t", "l", "e", "\"", ":", "\"", "A", "\"", "}">>, cls |-> "raises"],
     [text |-> <<"{", "\"", "s", "l", "i", "d", "e", "s", "\"", ":", "[", "{", "\"", "t", "i", "t", "l", "e", "\"", ":", "\"", "A", "\"", ",", "}", "]", "}">>, cls |-> "raises"],
     [text |-> <<"{", "\"", "s", "l", "i", "d", "e", "s", "\"", ":", "[", "{", "\"", "t", "i", "t", "l", "e", "\"", ":", "\"", "A", "\"", ",", "\"", "b", "u", "l", "l", "e", "t", "s", "\"", ":", "5", "}", "]", "}">>, cls |-> "raises"],
     [text |-> <<"{", "\"", "s", "l", "i", "d", "e", "s", "\"", ":", "[", "{", "\"", "t", "i", "t", "l", "e", "\"", ":", "\"", "A", "\"", ",", "\"", "b", "u", "l", "l", "e", "t", "s", "\"", ":", "t", "r", "u", "e", "}", "]", "}">>, cls |-> "raises"],
     [text |-> <<"{", "\"", "s", "l", "i", "d", "e", "s", "\"", ":", "[", "{", "\"", "t", "i", "t", "l", "e", "\"", ":", "\"", "A", "\"", ",", "\"", "b", "u", "l", "l", "e", "t", "s", "\"", ":", "0", "}", "]", "}">>, cls |-> "ok"],
     [text |-> <<"{", "\"", "s", "l", "i", "d", "e", "s", "\"", ":", "[", "{", "\"", "t", "i", "t", "l", "e", "\"", ":", "n", "u", "l", "l", ",", "\"", "b", "u", "l", "l", "e", "t", "s", "\"", ":", "n", "u", "l", "l", ",", "\"", "n", "o", "t", "e", "s", "\"", ":", "n", "u", "l", "l", "}", "]", "}">>, cls |-> "ok"],
     [text |-> <<"{", "\"", "s", "l", "i", "d", "e", "s", "\"", ":", "[", "{", "\"", "t", "i", "t", "l", "e", "\"", ":", "[", "\"", "x", "\"", ",", "1", "]", ",", "\"", "b", "u", "l", "l", "e", "t", "s", "\"", ":", "{", "\"", "k", "\"", ":", "1", ",", "\"", "j", "\"", ":", "2", "}", ",", "\"", "n", "o", "t", "e", "s", "\"", ":", "t", "r", "u", "e", "}", "]", "}">>, cls |-> "ok"],
     [text |-> <<"{", " ", "\"", "s", "l", "i", "d", "e", "s", "\"", " ", ":", " ", "[", " ", "{", " ", "\"", "t", "i", "t", "l", "e", "\"", " ", ":", " ", "\"", "A", "\"", " ", ",", " ", "\"", "n", "o", "t", "e", "s", "\"", " ", ":", " ", "\"", "n", "\"", " ", "}", " ", "]", " ", "}">>, cls |-> "ok"],
     [text |-> <<"{", "\"", "s", "l", "i", "d", "e", "s", "\"", ":", "[", "{", "}", "]", "}">>, cls |-> "ok"],
     [text |-> <<"}", " ", "n", "o", "t", "h", "i", "n", "g", " ", "{">>, cls |-> "raises"],
     [text |-> <<"{", "\"", "s", "l", "i", "d", "e", "s", "\"", ":", "[", "{", "\"", "t", "i", "t", "l", "e", "\"", ":", "\"", "A", "\"", "}", "]", "}", " ", "a", "n", "d", " ", "{", "\"", "s", "l", "i", "d", "e", "s", "\"", ":", "[", "]", "}">>, cls |-> "raises"],
     [text |-> <<"{", "\"", "s", "l", "i", "d", "e", "s", "\"", ":", "[", "{", "\"", "t", "i", "t", "l", "e", "\"", ":", "0", "1", "}", "]", "}">>, cls |-> "raises"] >>

Wraps == {"bare", "prose", "array", "fence"}

Wrap(doc, wrap) ==
  CASE wrap = "bare" -> doc
    [] wrap = "prose" -> <<"H", "e", "r", "e", " ", "i", "s", " ", "t", "h", "e", " ", "o", "u", "t", "l", "i", "n", "e", ":", " ">> \o doc \o <<" ", "H", "o", "p", "e", " ", "i", "t", " ", "h", "e", "l", "p", "s", ".">>
    [] wrap = "array" -> <<"[">> \o doc \o <<"]">>
    [] wrap = "fence" -> <<"~", "~", "~", "j", "s", "o", "n">> \o <<"\n">> \o doc \o <<"\n">> \o <<"~", "~", "~">>

CoerceInputs ==
  [kind : {"deck"}, n : 0..MaxSlidesIn, wrap : Wraps]
    \cup [kind : {"title_len"}, n : {0} \cup ((TITLE_MAX - Over)..(TITLE_MAX + Over)), wrap : {"bare"}]
    \cup [kind : {"bullets_n", "bullets_str"}, n : 0..MaxBulletsIn, wrap : {"bare"}]
    \cup [kind : {"bullet_len"}, n : (BULLET_MAX - Over)..(BULLET_MAX + Over), wrap : {"bare"}]
    \cup [kind : {"notes_len"}, n : {0} \cup ((NOTES_MAX - Over)..(NOTES_MAX + Over)), wrap : {"bare"}]
    \cup [kind : {"prose", "unbalanced"},
          n : {0} \cup ((FALLBACK_BULLET_LEN - Over)..(FALLBACK_BULLET_LEN + Over))
                  \cup ((FALLBACK_NOTES_LEN - Over)..(FALLBACK_NOTES_LEN + Over)),
          wrap : {"bare"}]
    \cup [kind : {"literal"}, n : 1..Len(LiteralDocs), wrap : {"bare"}]

Render(in) ==
  CASE in.kind = "deck" -> Wrap(DeckDoc(in.n), in.wrap)
    [] in.kind = "title_len" -> OneSlideDoc(Rep("T", in.n), <<"[", "\"", "x", "\"", "]">>, <<"s", "a", "y">>)
    [] in.kind = "bullets_n" -> OneSlideDoc(<<"A">>, BulletList(in.n, 1), <<"s", "a", "y">>)
    [] in.kind = "bullets_str" -> OneSlideDoc(<<"A">>, <<"\"">> \o Rep("c", in.n) \o <<"\"">>, <<"s", "a", "y">>)
    [] in.kind = "bullet_len" -> OneSlideDoc(<<"A">>, BulletList(1, in.n), <<"s", "a", "y">>)
    [] in.kind = "notes_len" -> OneSlideDoc(<<"A">>, <<"[", "\"", "x", "\"", "]">>, Rep("N", in.n))
    [] in.kind = "prose" -> Rep("w", in.n)
    [] in.kind = "unbalanced" -> <<"{", "\"", "s", "l", "i", "d", "e", "s", "\"", ":", "[">> \o Rep("w", in.n)
    [] in.kind = "literal" -> LiteralDocs[in.n].text

(***************************************************************************)
(* The template package and the slides built on it.  A placeholder is a    *)
(* record [type, mode]: its PP_PLACEHOLDER type and what writing to it     *)
(* does ("ok", "raises", and for a body "no_text_frame").  A layout is a   *)
(* record [name, placeholders]; its identity is its position in the        *)
(* package's layout list.  A slide is a record                             *)
(* [layout, placeholders, title, body, pictures, notes].                   *)
(***************************************************************************)

PH_TITLE == 1

PH_BODY == 2

PH_CENTER_TITLE == 3

PH_PICTURE == 18

Ph(type, mode) == [type |-> type, mode |-> mode]

LTitleSlide == [name |-> <<"T", "i", "t", "l", "e", " ", "S", "l", "i", "d", "e">>, placeholders |-> <<Ph(PH_CENTER_TITLE, "ok")>>]

LTitleContent == [name |-> <<"T", "i", "t", "l", "e", " ", "a", "n", "d", " ", "C", "o", "n", "t", "e", "n", "t">>, placeholders |-> <<Ph(PH_TITLE, "ok"), Ph(PH_BODY, "ok")>>]

LPicture == [name |-> <<"P", "i", "c", "t", "u", "r", "e", " ", "w", "i", "t", "h", " ", "C", "a", "p", "t", "i", "o", "n">>, placeholders |-> <<Ph(PH_TITLE, "ok"), Ph(PH_PICTURE, "ok"), Ph(PH_BODY, "ok")>>]

LGallery == [name |-> <<"G", "a", "l", "l", "e", "r", "y">>, placeholders |-> <<Ph(PH_PICTURE, "raises"), Ph(PH_PICTURE, "ok"), Ph(PH_PICTURE, "ok")>>]

LBlank == [name |-> <<"B", "l", "a", "n", "k">>, placeholders |-> <<>>]

LVertText == [name |-> <<"T", "i", "t", "l", "e", " ", "a", "n", "d", " ", "V", "e", "r", "t", "i", "c", "a", "l", " ", "T", "e", "x", "t">>, placeholders |-> <<Ph(PH_TITLE, "ok"), Ph(PH_BODY, "ok")>>]

LTitleOnly == [name |-> <<"T", "i", "t", "l", "e", " ", "O", "n", "l", "y">>, placeholders |-> <<Ph(PH_TITLE, "raises")>>]

LSection == [name |-> <<"S", "e", "c", "t", "i", "o", "n", " ", "H", "e", "a", "d", "e", "r">>, placeholders |-> <<Ph(PH_TITLE, "ok"), Ph(PH_BODY, "raises")>>]

LChart == [name |-> <<"T", "I", "T", "L", "E", " ", "A", "N", "D", " ", "C", "H", "A", "R", "T">>, placeholders |-> <<Ph(PH_TITLE, "ok"), Ph(PH_BODY, "no_text_frame")>>]

LUnnamed == [name |-> <<>>, placeholders |-> <<Ph(PH_PICTURE, "raises")>>]

\* a slide already in the template package
OldSlide(n) == [layout |-> 1, placeholders |-> <<>>, title |-> <<"o", "l", "d", " ">> \o Dec(n), body |-> <<>>, pictures |-> <<>>, notes |-> <<>>]

\* the blobs a relationship target may carry: two images and a part that is
\* not an image (its bytes make insert_picture and add_picture raise)
ImageBlobs == {"imgA", "imgB"}

Blobs == ImageBlobs \cup {"xml"}

(***************************************************************************)
(* allowed_file (src/app.py 19-20).                                        *)
(***************************************************************************)

ALLOWED_EXTENSIONS == {<<"p", "p", "t", "x">>, <<"p", "o", "t", "x">>}

\* filename.rsplit(".", 1)[1], for a filename that holds a "."
AfterLastDot(filename) == SubSeq(filename, RIndex(filename, ".") + 1, Len(filename))

allowed_file(filename) ==
  /\ Contains(filename, <<".">>)
  /\ Lower(AfterLastDot(filename)) \in ALLOWED_EXTENSIONS

(***************************************************************************)
(* extract_images_from_presentation (src/app.py 103-116): the blobs of the *)
(* package's relationship targets that have one, in order.  A target is a  *)
(* record [has_blob, blob].                                                *)
(***************************************************************************)

extract_images_from_presentation(rels) ==
  LET withBlob == SelectSeq(rels, LAMBDA t : t.has_blob)
  IN [i \in 1..Len(withBlob) |-> withBlob[i].blob]

(***************************************************************************)
(* choose_layout (src/app.py 176-189).  The result is the 1-based position *)
(* of the chosen layout; 0 stands for the IndexError of layouts[0] on an   *)
(* empty list.  idx is the 0-based slide index of the source.              *)
(***************************************************************************)

\* "title" in name and "content" not in name
IsTitleLayout(l) ==
  LET name == Lower(l.name)
  IN Contains(name, <<"t", "i", "t", "l", "e">>) /\ ~Contains(name, <<"c", "o", "n", "t", "e", "n", "t">>)

\* "title" in name and ("content" in name or "text" in name)
IsContentLayout(l) ==
  LET name == Lower(l.name)
  IN Contains(name, <<"t", "i", "t", "l", "e">>) /\ (Contains(name, <<"c", "o", "n", "t", "e", "n", "t">>) \/ Contains(name, <<"t", "e", "x", "t">>))

\* the first layout the loop of lines 180-183 accepts
FirstTitleLayout(layouts) ==
  CHOOSE i \in 1..Len(layouts) : IsTitleLayout(layouts[i]) /\ \A j \in 1..(i - 1) : ~IsTitleLayout(layouts[j])

\* the first layout the loop of lines 185-188 accepts
FirstContentLayout(layouts) ==
  CHOOSE i \in 1..Len(layouts) : IsContentLayout(layouts[i]) /\ \A j \in 1..(i - 1) : ~IsContentLayout(layouts[j])

choose_layout(layouts, idx) ==
  IF Len(layouts) = 0 THEN 0
  ELSE IF idx = 0
    THEN IF \E i \in 1..Len(layouts) : IsTitleLayout(layouts[i])
         THEN FirstTitleLayout(layouts)
         ELSE 1
  ELSE IF \E i \in 1..Len(layouts) : IsContentLayout(layouts[i])
    THEN FirstContentLayout(layouts)
  ELSE (idx % Len(layouts)) + 1

(***************************************************************************)
(* The steps of one iteration of add_slides_from_outline                   *)
(* (src/app.py 123-174), as functions of the slide under construction.     *)
(***************************************************************************)

\* prs.slides.add_slide(layout): the slide inherits the layout's placeholders
NewSlide(layouts, li) ==
  [layout |-> li, placeholders |-> layouts[li].placeholders,
   title |-> <<>>, body |-> <<>>, pictures |-> <<>>, notes |-> <<>>]

\* the first placeholder of one of the given types, 0 when there is none
FirstPh(phs, types) ==
  IF \A i \in 1..Len(phs) : phs[i].type \notin types THEN 0
  ELSE CHOOSE i \in 1..Len(phs) : phs[i].type \in types /\ \A j \in 1..(i - 1) : phs[j].type \notin types

\* lines 131-132 looking for a placeholder of type TITLE only, so that a
\* centred title is not found
BindTitle_TitleTypeOnly(slide, title_text) ==
  IF \A i \in 1..Len(slide.placeholders) : slide.placeholders[i].type # PH_TITLE
    THEN [raised |-> FALSE, slide |-> slide]
  ELSE IF \E i \in 1..Len(slide.placeholders) : slide.placeholders[i].type = PH_TITLE /\ slide.placeholders[i].mode = "raises"
    THEN [raised |-> TRUE, slide |-> slide]
  ELSE [raised |-> FALSE, slide |-> [slide EXCEPT !.title = Take(title_text, TITLE_MAX)]]

\* lines 131-132: [raised, slide]
BindTitle(slide, title_text) ==
  LET t == FirstPh(slide.placeholders, {PH_TITLE, PH_CENTER_TITLE})
  IN IF t = 0 THEN [raised |-> FALSE, slide |-> slide]
     ELSE IF slide.placeholders[t].mode = "raises" THEN [raised |-> TRUE, slide |-> slide]
     ELSE [raised |-> FALSE, slide |-> [slide EXCEPT !.title = Take(title_text, TITLE_MAX)]]

\* lines 134-146: [raised, slide]; tf.clear() leaves one empty paragraph
BindBody(slide, bullets) ==
  LET b == FirstPh(slide.placeholders, {PH_BODY})
  IN IF b = 0 \/ slide.placeholders[b].mode = "no_text_frame" THEN [raised |-> FALSE, slide |-> slide]
     ELSE IF slide.placeholders[b].mode = "raises" THEN [raised |-> TRUE, slide |-> slide]
     ELSE [raised |-> FALSE,
           slide |-> [slide EXCEPT !.body = IF bullets = <<>> THEN << <<>> >>
                                           ELSE [i \in 1..Len(bullets) |-> Strip(bullets[i])]]]

\* shape.insert_picture(blob) on placeholder ph succeeds
InsertOk(ph, blob) == ph.mode = "ok" /\ blob \in ImageBlobs

\* slide.shapes.add_picture(blob, ...) succeeds
AddPictureOk(blob) == blob \in ImageBlobs

\* lines 150-159, from placeholder i on: [placed, slide, img_ix]
RECURSIVE TryPlaceholders(_, _, _, _)
TryPlaceholders(slide, i, images, img_ix) ==
  IF i > Len(slide.placeholders) THEN [placed |-> FALSE, slide |-> slide, img_ix |-> img_ix]
  ELSE IF slide.placeholders[i].type # PH_PICTURE THEN TryPlaceholders(slide, i + 1, images, img_ix)
  ELSE LET image_blob == images[(img_ix % Len(images)) + 1]
       IN IF InsertOk(slide.placeholders[i], image_blob)
          THEN [placed |-> TRUE, slide |-> [slide EXCEPT !.pictures = Append(@, image_blob)], img_ix |-> img_ix + 1]
          ELSE TryPlaceholders(slide, i + 1, images, img_ix)

\* lines 148-168 with img_ix += 1 after the try blocks, not inside them
PlaceImage_CountsFailures(slide, images, img_ix) ==
  IF images = <<>> THEN [slide |-> slide, img_ix |-> img_ix]
  ELSE LET p == TryPlaceholders(slide, 1, images, img_ix)
           image_blob == images[(p.img_ix % Len(images)) + 1]
       IN IF p.placed THEN [slide |-> p.slide, img_ix |-> p.img_ix]
          ELSE IF AddPictureOk(image_blob)
            THEN [slide |-> [p.slide EXCEPT !.pictures = Append(@, image_blob)], img_ix |-> p.img_ix + 1]
          ELSE [slide |-> p.slide, img_ix |-> p.img_ix + 1]

\* lines 148-168: [slide, img_ix]
PlaceImage(slide, images, img_ix) ==
  IF images = <<>> THEN [slide |-> slide, img_ix |-> img_ix]
  ELSE LET p == TryPlaceholders(slide, 1, images, img_ix)
           image_blob == images[(p.img_ix % Len(images)) + 1]
       IN IF p.placed THEN [slide |-> p.slide, img_ix |-> p.img_ix]
          ELSE IF AddPictureOk(image_blob)
            THEN [slide |-> [p.slide EXCEPT !.pictures = Append(@, image_blob)], img_ix |-> p.img_ix + 1]
          ELSE [slide |-> p.slide, img_ix |-> p.img_ix]

\* lines 170-174
BindNotes(slide, notes, notes_ok) ==
  IF notes # <<>> /\ notes_ok THEN [slide EXCEPT !.notes = notes] ELSE slide

(***************************************************************************)
(* llm_build_outline and the provider adapters (src/app.py 191-212,        *)
(* 235-281).  The provider's behaviour is a record [kind, content]:        *)
(* "timeout" (requests.post raises), "http_error" (raise_for_status        *)
(* raises), "bad_shape" (indexing the decoded body raises),                *)
(* "null_content" (the content field is null) and "text".  An outline is   *)
(* a record [error, slides]: error says that the dict has the key "error". *)
(***************************************************************************)

ErrorOutline == [error |-> TRUE, slides |-> <<>>]

\* lines 246-249, 265-268, 278-281: [raised, outline, posts]
ProviderCall(resp, wn) ==
  IF resp.kind = "timeout" THEN [raised |-> TRUE, outline |-> ErrorOutline, posts |-> 1]
  ELSE IF resp.kind \in {"http_error", "bad_shape", "null_content"}
    THEN [raised |-> TRUE, outline |-> ErrorOutline, posts |-> 1]
  ELSE [raised |-> FALSE,
        outline |-> [error |-> FALSE, slides |-> coerce_outline(resp.content, wn).slides],
        posts |-> 1]

call_openai_chat(resp, wn) == ProviderCall(resp, wn)

call_anthropic_messages(resp, wn) == ProviderCall(resp, wn)

call_gemini_generate(resp, wn) == ProviderCall(resp, wn)

PROVIDERS == {<<"o", "p", "e", "n", "a", "i">>, <<"a", "n", "t", "h", "r", "o", "p", "i", "c">>, <<"g", "e", "m", "i", "n", "i">>}

\* lines 202-212 with one more attempt after a provider call that raised
llm_build_outline_Retry(provider, resp, wn) ==
  IF provider \notin PROVIDERS THEN [outline |-> ErrorOutline, posts |-> 0]
  ELSE IF ProviderCall(resp, wn).raised THEN [outline |-> ErrorOutline, posts |-> 2]
  ELSE [outline |-> ProviderCall(resp, wn).outline, posts |-> 1]

\* [outline, posts]
llm_build_outline(provider, resp, wn) ==
  LET r == CASE provider = <<"o", "p", "e", "n", "a", "i">> -> call_openai_chat(resp, wn)
             [] provider = <<"a", "n", "t", "h", "r", "o", "p", "i", "c">> -> call_anthropic_messages(resp, wn)
             [] provider = <<"g", "e", "m", "i", "n", "i">> -> call_gemini_generate(resp, wn)
             [] OTHER -> [raised |-> FALSE, outline |-> ErrorOutline, posts |-> 0]
  IN [outline |-> IF r.raised THEN ErrorOutline ELSE r.outline, posts |-> r.posts]

(***************************************************************************)
(* Inputs of the assembly and of a request.                                *)
(***************************************************************************)

MaxImages == 2

MaxAsmSlides == 3

SeqsUpTo(S, n) == UNION {[1..k -> S] : k \in 0..n}

\* template packages: [layouts, slides, notes_ok]
Package(layouts, nslides, notes_ok) ==
  [layouts |-> layouts, slides |-> [i \in 1..nslides |-> OldSlide(i)], notes_ok |-> notes_ok]

Packages ==
  { Package(<<LTitleSlide, LTitleContent, LPicture, LBlank>>, 1, TRUE),
    Package(<<LBlank>>, 0, TRUE),
    Package(<<LBlank, LTitleSlide>>, 1, TRUE),
    Package(<<>>, 1, TRUE),
    Package(<<LVertText, LTitleContent>>, 0, TRUE),
    Package(<<LTitleContent>>, 2, FALSE),
    Package(<<LGallery, LUnnamed>>, 0, FALSE),
    Package(<<LTitleSlide, LTitleOnly>>, 1, TRUE),
    Package(<<LSection, LBlank>>, 0, TRUE),
    Package(<<LBlank, LPicture, LChart>>, 1, TRUE),
    Package(<<LPicture, LGallery, LBlank>>, 0, TRUE) }

\* texts a provider may return to a request under assembly
SpacedDoc == <<"{", "\"", "s", "l", "i", "d", "e", "s", "\"", ":", "[", "{", "\"", "t", "i", "t", "l", "e", "\"", ":", "\"", "A", "\"", ",", "\"", "b", "u", "l", "l", "e", "t", "s", "\"", ":", "[", "\"", " ", "x", " ", "\"", ",", "\"", "y", " ", " ", "\"", ",", "\"", "\"", "]", ",", "\"", "n", "o", "t", "e", "s", "\"", ":", "\"", "s", "a", "y", "\"", "}", ",", "{", "\"", "t", "i", "t", "l", "e", "\"", ":", "\"", "B", "\"", ",", "\"", "b", "u", "l", "l", "e", "t", "s", "\"", ":", "[", "]", ",", "\"", "n", "o", "t", "e", "s", "\"", ":", "\"", "\"", "}", "]", "}">>

LongTitleDoc == OneSlideDoc(Rep("T", TITLE_MAX + Over), <<"[", "\"", "x", "\"", "]">>, <<"s", "a", "y">>)

LongNotesDoc == OneSlideDoc(<<"A">>, <<"[", "\"", "x", "\"", "]">>, Rep("N", NOTES_MAX + Over))

AsmTexts == {DeckDoc(n) : n \in 0..MaxAsmSlides} \cup {<<"p", "l", "a", "i", "n", " ", "w", "o", "r", "d", "s">>, SpacedDoc, LongTitleDoc, LongNotesDoc}

AsmOutlines == {[error |-> FALSE, slides |-> coerce_outline(t, wn).slides] : t \in AsmTexts, wn \in BOOLEAN}

ImagePools == SeqsUpTo(Blobs, MaxImages)

\* request forms: the raw fields of request.form and request.files
Forms ==
  [input_text : {<<>>, <<" ", " ">>, <<" ", "t", "a", "l", "k", " ">>},
   api_key : {<<>>, <<"k", "e", "y">>},
   provider : {<<"o", "p", "e", "n", "a", "i">>, <<"a", "n", "t", "h", "r", "o", "p", "i", "c", " ">>, <<"g", "e", "m", "i", "n", "i">>, <<"l", "l", "a", "m", "a">>},
   with_notes : {<<"t", "r", "u", "e">>, <<" ", "T", "R", "U", "E">>, <<"f", "a", "l", "s", "e">>},
   has_file : BOOLEAN,
   filename : {<<>>, <<"d", "e", "c", "k">>, <<"d", "e", "c", "k", ".", "p", "p", "t", "x">>, <<"M", "y", ".", "D", "e", "c", "k", ".", "P", "O", "T", "X">>, <<"d", "e", "c", "k", ".", "p", "d", "f">>, <<"d", "e", "c", "k", ".", "p", "p", "t", "x", ".", "e", "x", "e">>}]

\* uploaded files: whether Presentation() opens them, the package they hold
\* and its relationship targets
Uploads ==
  { [opens |-> FALSE, prs |-> Package(<<>>, 0, TRUE), rels |-> <<>>],
    [opens |-> TRUE, prs |-> Package(<<LTitleSlide, LTitleContent, LPicture, LBlank>>, 1, TRUE),
     rels |-> <<[has_blob |-> TRUE, blob |-> "xml"], [has_blob |-> FALSE, blob |-> "xml"], [has_blob |-> TRUE, blob |-> "imgA"]>>],
    [opens |-> TRUE, prs |-> Package(<<>>, 1, TRUE), rels |-> <<[has_blob |-> TRUE, blob |-> "imgA"]>>],
    [opens |-> TRUE, prs |-> Package(<<LTitleSlide, LTitleOnly>>, 0, FALSE), rels |-> <<>>],
    [opens |-> TRUE, prs |-> Package(<<LGallery>>, 0, TRUE),
     rels |-> <<[has_blob |-> TRUE, blob |-> "imgA"], [has_blob |-> TRUE, blob |-> "imgB"]>>] }

Responses ==
  [kind : {"timeout", "http_error", "bad_shape", "null_content"}, content : {<<>>}]
    \cup [kind : {"text"}, content : AsmTexts]

(***************************************************************************)
(* State.                                                                  *)
(***************************************************************************)
VARIABLES
  co_pc,          \* coerce_outline alone: "call" before it runs, "returned" after
  co_in,          \* the description of its input text
  co_text,        \* its argument text
  co_with_notes,  \* its argument with_notes
  co_result,      \* the outline it returned
  pc,             \* generate: "start", "validated", "opened", "llm_ok", "assembling", "done"
  form,           \* the request's form fields
  http_posts,     \* the requests.post calls made for this request
  response,       \* the response of generate: [status, kind, slides]
  events,         \* what generate has done so far, in order
  prs,            \* the template package
  images,         \* the image pool
  outline,        \* the outline given to add_slides_from_outline
  deck,           \* the slides of output_prs
  asm_pc,         \* add_slides_from_outline: "idle", "entry", "loop", "title", "body", "image", "notes", "returned", "raised"
  idx,            \* its loop index
  img_ix          \* its image counter

vars == <<co_pc, co_in, co_text, co_with_notes, co_result, pc, form, http_posts, response, events, prs, images, outline, deck, asm_pc, idx, img_ix>>

co_vars == <<co_pc, co_in, co_text, co_with_notes, co_result>>

gen_vars == <<pc, form, http_posts, response, events>>

asm_vars == <<prs, images, outline, deck, asm_pc, idx, img_ix>>

NoOutline == [slides |-> <<>>]

NoResponse == [status |-> 0, kind |-> "none", slides |-> <<>>]

NoForm == [input_text |-> <<>>, api_key |-> <<>>, provider |-> <<>>, with_notes |-> <<>>, has_file |-> FALSE, filename |-> <<>>]

CoerceIdle ==
  /\ co_pc = "idle"
  /\ co_in = [kind |-> "none", n |-> 0, wrap |-> "bare"]
  /\ co_text = <<>>
  /\ co_with_notes = FALSE
  /\ co_result = NoOutline

GenerateIdle ==
  /\ pc = "idle"
  /\ form = NoForm
  /\ http_posts = 0
  /\ response = NoResponse
  /\ events = <<>>

AssembleIdle ==
  /\ prs = Package(<<>>, 0, TRUE)
  /\ images = <<>>
  /\ outline = [error |-> FALSE, slides |-> <<>>]
  /\ deck = <<>>
  /\ asm_pc = "idle"
  /\ idx = 0
  /\ img_ix = 0

(***************************************************************************)
(* coerce_outline alone.                                                   *)
(***************************************************************************)

InitCoerce ==
  /\ co_pc = "call"
  /\ co_in \in CoerceInputs
  /\ co_text = Render(co_in)
  /\ co_with_notes \in BOOLEAN
  /\ co_result = NoOutline
  /\ GenerateIdle
  /\ AssembleIdle

\* one call of coerce_outline
CoerceOutline ==
  /\ co_pc = "call"
  /\ co_result' = coerce_outline(co_text, co_with_notes)
  /\ co_pc' = "returned"
  /\ UNCHANGED <<co_in, co_text, co_with_notes, gen_vars, asm_vars>>

NextCoerce == CoerceOutline

SpecCoerce == InitCoerce /\ [][NextCoerce]_vars

(***************************************************************************)
(* add_slides_from_outline (src/app.py 118-174), one action per step.  The *)
(* slide under construction is the last slide of deck.                     *)
(***************************************************************************)

Cur == deck[Len(deck)]

SlideDef == outline.slides[idx + 1]

SetCur(slide) == [deck EXCEPT ![Len(deck)] = slide]

\* lines 119-122
AsmEntry ==
  /\ asm_pc = "entry"
  /\ asm_pc' = IF prs.layouts = <<>> THEN "returned" ELSE "loop"
  /\ idx' = 0
  /\ img_ix' = 0
  /\ UNCHANGED <<prs, images, outline, deck, co_vars, gen_vars>>

\* lines 123-129: the next entry of the outline gets its slide
AsmAddSlide ==
  /\ asm_pc = "loop"
  /\ idx < Len(outline.slides)
  /\ deck' = Append(deck, NewSlide(prs.layouts, choose_layout(prs.layouts, idx)))
  /\ asm_pc' = "title"
  /\ UNCHANGED <<prs, images, outline, idx, img_ix, co_vars, gen_vars>>

\* the loop is exhausted: the function returns
AsmReturn ==
  /\ asm_pc = "loop"
  /\ idx = Len(outline.slides)
  /\ asm_pc' = "returned"
  /\ UNCHANGED <<prs, images, outline, deck, idx, img_ix, co_vars, gen_vars>>

\* lines 131-132
AsmTitle ==
  /\ asm_pc = "title"
  /\ LET r == BindTitle(Cur, SlideDef.title)
     IN /\ deck' = SetCur(r.slide)
        /\ asm_pc' = IF r.raised THEN "raised" ELSE "body"
  /\ UNCHANGED <<prs, images, outline, idx, img_ix, co_vars, gen_vars>>

\* lines 134-146
AsmBody ==
  /\ asm_pc = "body"
  /\ LET r == BindBody(Cur, SlideDef.bullets)
     IN /\ deck' = SetCur(r.slide)
        /\ asm_pc' = IF r.raised THEN "raised" ELSE "image"
  /\ UNCHANGED <<prs, images, outline, idx, img_ix, co_vars, gen_vars>>

\* lines 148-168
AsmImage ==
  /\ asm_pc = "image"
  /\ LET r == PlaceImage(Cur, images, img_ix)
     IN /\ deck' = SetCur(r.slide)
        /\ img_ix' = r.img_ix
  /\ asm_pc' = "notes"
  /\ UNCHANGED <<prs, images, outline, idx, co_vars, gen_vars>>

\* lines 170-174, and the step of the loop
AsmNotes ==
  /\ asm_pc = "notes"
  /\ deck' = SetCur(BindNotes(Cur, SlideDef.notes, prs.notes_ok))
  /\ idx' = idx + 1
  /\ asm_pc' = "loop"
  /\ UNCHANGED <<prs, images, outline, img_ix, co_vars, gen_vars>>

InitAssemble ==
  /\ prs \in Packages
  /\ images \in ImagePools
  /\ outline \in AsmOutlines
  /\ deck = prs.slides
  /\ asm_pc = "entry"
  /\ idx = 0
  /\ img_ix = 0
  /\ CoerceIdle
  /\ GenerateIdle

NextAssemble == AsmEntry \/ AsmAddSlide \/ AsmReturn \/ AsmTitle \/ AsmBody \/ AsmImage \/ AsmNotes

SpecAssemble == InitAssemble /\ [][NextAssemble]_vars

(***************************************************************************)
(* generate (src/app.py 26-82), one action per stage of the handler.       *)
(***************************************************************************)

\* line 32
WithNotes(f) == Lower(Strip(f.with_notes)) = <<"t", "r", "u", "e">>

\* line 35
FieldsOk(f) == Strip(f.input_text) # <<>> /\ Strip(f.api_key) # <<>> /\ Strip(f.provider) \in PROVIDERS

Respond(status, kind, slides) == [status |-> status, kind |-> kind, slides |-> slides]

HTTP_BAD_REQUEST == 400

HTTP_OK == 200

HTTP_SERVER_ERROR == 500

InitGenerate ==
  /\ pc = "start"
  /\ form \in Forms
  /\ http_posts = 0
  /\ response = NoResponse
  /\ events = <<>>
  /\ CoerceIdle
  /\ AssembleIdle

\* lines 28-42: the required fields, then the uploaded file's name
GenValidate ==
  /\ pc = "start"
  /\ IF ~FieldsOk(form)
       THEN response' = Respond(HTTP_BAD_REQUEST, "missing_fields", <<>>) /\ pc' = "done" /\ events' = events
     ELSE IF ~form.has_file \/ form.filename = <<>>
       THEN response' = Respond(HTTP_BAD_REQUEST, "no_file", <<>>) /\ pc' = "done" /\ events' = events
     ELSE IF ~allowed_file(form.filename)
       THEN response' = Respond(HTTP_BAD_REQUEST, "bad_type", <<>>) /\ pc' = "done" /\ events' = events
     ELSE response' = response /\ pc' = "validated" /\ events' = Append(events, "validated")
  /\ UNCHANGED <<form, http_posts, co_vars, asm_vars>>

\* lines 44-50: the upload is read and opened, its images extracted
GenOpenTemplate ==
  /\ pc = "validated"
  /\ \E u \in Uploads :
       IF ~u.opens
         THEN /\ response' = Respond(HTTP_BAD_REQUEST, "template", <<>>)
              /\ pc' = "done"
              /\ UNCHANGED <<events, prs, images>>
       ELSE /\ prs' = u.prs
            /\ images' = extract_images_from_presentation(u.rels)
            /\ pc' = "opened"
            /\ events' = Append(events, "opened")
            /\ response' = response
  /\ UNCHANGED <<form, http_posts, outline, deck, asm_pc, idx, img_ix, co_vars>>

\* lines 52-61: the one call of llm_build_outline
GenCallLLM ==
  /\ pc = "opened"
  /\ \E resp \in Responses :
       LET r == llm_build_outline(Strip(form.provider), resp, WithNotes(form))
       IN /\ http_posts' = http_posts + r.posts
          /\ outline' = r.outline
          /\ IF r.outline.error
               THEN /\ response' = Respond(HTTP_BAD_REQUEST, "llm", <<>>)
                    /\ pc' = "done"
                    /\ events' = Append(events, "llm_error")
             ELSE /\ response' = response
                  /\ pc' = "llm_ok"
                  /\ events' = Append(events, "llm_ok")
  /\ UNCHANGED <<form, prs, images, deck, asm_pc, idx, img_ix, co_vars>>

\* lines 63-64: the upload is opened again and add_slides_from_outline called
GenAssemble ==
  /\ pc = "llm_ok"
  /\ deck' = prs.slides
  /\ asm_pc' = "entry"
  /\ pc' = "assembling"
  /\ events' = Append(events, "assemble")
  /\ UNCHANGED <<form, http_posts, response, prs, images, outline, idx, img_ix, co_vars>>

\* lines 66-82: the deck is saved and sent; a failing save propagates
GenSave ==
  /\ pc = "assembling"
  /\ asm_pc = "returned"
  /\ \E saved \in BOOLEAN :
       IF saved
         THEN response' = Respond(HTTP_OK, "success", deck) /\ events' = Append(events, "saved")
       ELSE response' = Respond(HTTP_SERVER_ERROR, "exception", <<>>) /\ events' = events
  /\ pc' = "done"
  /\ UNCHANGED <<form, http_posts, co_vars, asm_vars>>

\* line 64: an exception of add_slides_from_outline propagates out of generate
GenPropagate ==
  /\ pc = "assembling"
  /\ asm_pc = "raised"
  /\ response' = Respond(HTTP_SERVER_ERROR, "exception", <<>>)
  /\ pc' = "done"
  /\ UNCHANGED <<form, http_posts, events, co_vars, asm_vars>>

Init == InitGenerate

Next ==
  \/ GenValidate \/ GenOpenTemplate \/ GenCallLLM \/ GenAssemble \/ GenSave \/ GenPropagate
  \/ AsmEntry \/ AsmAddSlide \/ AsmReturn \/ AsmTitle \/ AsmBody \/ AsmImage \/ AsmNotes

Spec == Init /\ [][Next]_vars

(***************************************************************************)
(* Properties.                                                             *)
(***************************************************************************)

\* the slides add_slides_from_outline has appended to the template's own
Base == Len(prs.slides)

Added == (Base + 1)..Len(deck)

Returned == co_pc = "returned"

\* inputs on which a statement of the try block raises, and inputs on which
\* the loop of line 221 runs over no entry
InputRaises ==
  \/ co_in.kind \in {"prose", "unbalanced"}
  \/ co_in.kind = "literal" /\ LiteralDocs[co_in.n].cls = "raises"

InputZero ==
  \/ co_in.kind = "deck" /\ co_in.n = 0
  \/ co_in.kind = "literal" /\ LiteralDocs[co_in.n].cls = "zero"

\* C1: whatever the text and with_notes, coerce_outline returns an outline of
\* at least 1 and at most 25 slides, and of a document of n numbered entries it
\* returns the first min(n, 25), in their order.
C1_SlideCountBounded ==
  Returned =>
    /\ Len(co_result.slides) >= 1
    /\ Len(co_result.slides) <= 25
    /\ co_in.kind = "deck" /\ co_in.n >= 1 =>
         /\ Len(co_result.slides) = (IF co_in.n > 25 THEN 25 ELSE co_in.n)
         /\ \A j \in 1..Len(co_result.slides) : co_result.slides[j].title = Dec(j)

C1_Witness ==
  /\ Returned
  /\ co_in.kind = "deck"
  /\ co_in.n > 25
  /\ Len(co_result.slides) = 25
  /\ co_result.slides[25].title = <<"2", "5">>

\* C2 as stated: every slide coerce_outline returns has at most 8 bullets and
\* a title of at most 255 characters.
C2_Original ==
  Returned =>
    \A j \in 1..Len(co_result.slides) :
      Len(co_result.slides[j].bullets) <= 8 /\ Len(co_result.slides[j].title) <= 255

\* C2 as amended: every slide coerce_outline returns has at most 10 bullets
\* and a title of at most 255 characters.
C2_BulletsAndTitleBounded ==
  Returned =>
    \A j \in 1..Len(co_result.slides) :
      Len(co_result.slides[j].bullets) <= 10 /\ Len(co_result.slides[j].title) <= 255

C2_Witness ==
  /\ Returned
  /\ co_in.kind = "bullets_n"
  /\ co_in.n > 10
  /\ Len(co_result.slides[1].bullets) = 10

\* a title or a bullet of the slide is a non-empty prefix of the text, or the
\* text is empty and so is the bullet
DerivedFromPrefix(slide, text) ==
  \/ \E k \in 1..Len(text) :
       slide.title = Take(text, k) \/ \E b \in 1..Len(slide.bullets) : slide.bullets[b] = Take(text, k)
  \/ text = <<>> /\ slide.bullets = << <<>> >>

\* C3 as stated: when the text cannot be parsed, is of the wrong shape or
\* yields zero slides, coerce_outline returns exactly one slide whose title or
\* bullet is a prefix of the raw text.
C3_Original ==
  Returned /\ (InputRaises \/ InputZero) =>
    Len(co_result.slides) = 1 /\ DerivedFromPrefix(co_result.slides[1], co_text)

\* C3 as amended: in these cases coerce_outline returns exactly one slide,
\* titled "Overview"; when a statement of the try block raises, its one bullet
\* is the first 120 characters of the raw text (and its notes the first 500
\* when notes were requested); when the parse yields zero slides, its one
\* bullet is the fixed string "Summary" and its notes are empty.
C3_FallbackSlide ==
  /\ Returned /\ InputRaises =>
       co_result.slides =
         <<[title |-> <<"O", "v", "e", "r", "v", "i", "e", "w">>,
            bullets |-> <<SubSeq(co_text, 1, IF Len(co_text) < 120 THEN Len(co_text) ELSE 120)>>,
            notes |-> IF co_with_notes
                        THEN SubSeq(co_text, 1, IF Len(co_text) < 500 THEN Len(co_text) ELSE 500)
                      ELSE <<>>]>>
  /\ Returned /\ InputZero =>
       co_result.slides = <<[title |-> <<"O", "v", "e", "r", "v", "i", "e", "w">>, bullets |-> <<<<"S", "u", "m", "m", "a", "r", "y">>>>, notes |-> <<>>]>>

C3_Witness ==
  /\ Returned
  /\ co_in.kind = "unbalanced"
  /\ Len(co_text) > 120
  /\ Len(co_result.slides) = 1
  /\ Len(co_result.slides[1].bullets[1]) = 120

\* the number of slides appended before position j that carry a picture
PicturesBefore(j) == Cardinality({m \in Added : m < j /\ deck[m].pictures # <<>>})

\* C4: each appended slide carries at most one picture; the picture is
\* images[c mod k], c the number of pictures placed on earlier slides; the
\* counter counts exactly the placements that succeeded; and while every
\* slide got its picture, the i-th slide (from 0) carries images[i mod k].
C4_RoundRobinImages ==
  /\ img_ix = Cardinality({m \in Added : deck[m].pictures # <<>>})
  /\ \A j \in Added :
       /\ Len(deck[j].pictures) <= 1
       /\ images = <<>> => deck[j].pictures = <<>>
       /\ deck[j].pictures # <<>> =>
            deck[j].pictures[1] = images[(PicturesBefore(j) % Len(images)) + 1]
       /\ (\A m \in Added : m <= j => deck[m].pictures # <<>>) =>
            deck[j].pictures[1] = images[((j - Base - 1) % Len(images)) + 1]

C4_Witness ==
  /\ asm_pc = "returned"
  /\ images = <<"imgA", "imgB">>
  /\ Len(deck) = Base + 3
  /\ deck[Base + 1].pictures = <<"imgA">>
  /\ deck[Base + 2].pictures = <<"imgB">>
  /\ deck[Base + 3].pictures = <<"imgA">>

\* C5 as stated: when the template has a layout named "Title and Content",
\* every appended slide but the first uses that layout.
C5_Original ==
  (\E i \in 1..Len(prs.layouts) : prs.layouts[i].name = <<"T", "i", "t", "l", "e", " ", "a", "n", "d", " ", "C", "o", "n", "t", "e", "n", "t">>) =>
    \A j \in Added : j > Base + 1 => prs.layouts[deck[j].layout].name = <<"T", "i", "t", "l", "e", " ", "a", "n", "d", " ", "C", "o", "n", "t", "e", "n", "t">>

\* C6 as stated: a failure of title binding, body binding, image placement or
\* notes binding is absorbed, and add_slides_from_outline never ends by
\* propagating it.
C6_Original == asm_pc # "raised"

\* C7 as stated: with a template that has no layouts, the request does not
\* end in a success response carrying the template's slides and no new one.
C7_Original == ~(pc = "done" /\ prs.layouts = <<>> /\ response.kind = "success" /\ response.slides = prs.slides)

\* C8: when notes were not requested, every slide of the outline has empty
\* notes (on the normal path and on both fallback paths) and no appended
\* slide gets speaker notes; when they were requested, every slide's notes
\* have at most 2000 characters.
C8_NotesClearedOrCapped ==
  /\ ~WithNotes(form) =>
       /\ \A i \in 1..Len(outline.slides) : outline.slides[i].notes = <<>>
       /\ \A j \in Added : deck[j].notes = <<>>
  /\ WithNotes(form) =>
       \A i \in 1..Len(outline.slides) : Len(outline.slides[i].notes) <= 2000

C8_Witness ==
  /\ pc = "done"
  /\ response.kind = "success"
  /\ ~WithNotes(form)
  /\ Len(deck) = Base + MaxAsmSlides
  /\ prs.notes_ok

\* some placeholder of the slide is a title placeholder
HasTitlePlaceholder(slide) ==
  \E i \in 1..Len(slide.placeholders) : slide.placeholders[i].type \in {1, 3}

\* C9 as stated: when the template has a layout and no step raises, the deck
\* ends with the template's slides, unchanged and in order, followed by one
\* slide per outline entry, the j-th carrying the j-th entry's title cut to
\* 255 characters.
C9_Original ==
  asm_pc = "returned" /\ prs.layouts # <<>> =>
    /\ Len(deck) = Base + Len(outline.slides)
    /\ SubSeq(deck, 1, Base) = prs.slides
    /\ \A j \in 1..Len(outline.slides) :
         deck[Base + j].title = SubSeq(outline.slides[j].title, 1, IF Len(outline.slides[j].title) < 255 THEN Len(outline.slides[j].title) ELSE 255)

\* C9 as amended: the same, but the j-th appended slide carries the title
\* only when the layout chosen for it has a title placeholder; a slide
\* without one carries no title text.
C9_OneSlidePerEntry ==
  asm_pc = "returned" /\ prs.layouts # <<>> =>
    /\ Len(deck) = Base + Len(outline.slides)
    /\ SubSeq(deck, 1, Base) = prs.slides
    /\ \A j \in 1..Len(outline.slides) :
         deck[Base + j].title =
           IF HasTitlePlaceholder(deck[Base + j])
             THEN SubSeq(outline.slides[j].title, 1, IF Len(outline.slides[j].title) < 255 THEN Len(outline.slides[j].title) ELSE 255)
           ELSE <<>>

C9_Witness ==
  /\ asm_pc = "returned"
  /\ Base >= 1
  /\ Len(deck) = Base + MaxAsmSlides
  /\ deck[Base + 1].title = <<"1">>
  /\ \E j \in Added : ~HasTitlePlaceholder(deck[j]) /\ deck[j].title = <<>>

\* C10: a deck is assembled and saved only after validation, the opening of
\* the template and one provider call that returned an outline, in this
\* order; a failed validation or open makes no provider call; a provider
\* call that raises, or an unsupported provider, gives an error outline, is
\* not retried, adds no slide and ends the request with an error response.
C10_PipelineOrder ==
  /\ http_posts <= 1
  /\ ("assemble" \in {events[i] : i \in 1..Len(events)} \/ deck # <<>> \/ response.kind = "success") =>
       /\ SubSeq(events, 1, 4) = <<"validated", "opened", "llm_ok", "assemble">>
       /\ http_posts = 1
       /\ ~outline.error
  /\ response.kind \in {"missing_fields", "no_file", "bad_type", "template"} => http_posts = 0
  /\ outline.error =>
       /\ http_posts = 1
       /\ deck = <<>>
       /\ asm_pc = "idle"
       /\ pc = "done"
       /\ response.status = 400
       /\ response.kind = "llm"
  /\ \A resp \in Responses :
       /\ llm_build_outline(<<"l", "l", "a", "m", "a">>, resp, TRUE).outline.error
       /\ llm_build_outline(<<"l", "l", "a", "m", "a">>, resp, TRUE).posts = 0
       /\ resp.kind # "text" => llm_build_outline(<<"o", "p", "e", "n", "a", "i">>, resp, TRUE).outline.error

C10_Witness ==
  /\ pc = "done"
  /\ response.kind = "success"
  /\ events = <<"validated", "opened", "llm_ok", "assemble", "saved">>
  /\ Len(response.slides) > Base
====
